---- MODULE Spec2Model ----
(***************************************************************************)
(* Model of node/cli/src/factory_impl.rs: the transaction-factory runtime  *)
(* adapter (RuntimeAdapterImpl), gen_seed_bytes and sign.                  *)
(*                                                                         *)
(* The adapter is a set of free functions.  Two specifications drive it:   *)
(*   Spec        one caller issuing one call at a time (call / return);    *)
(*   SpecWorkers several workers, each executing transfer_extrinsic or     *)
(*               timestamp_inherent statement by statement, interleaved.   *)
(*                                                                         *)
(* Values: bytes are 0..255; an AccountId, a Hash and a 32-byte seed are   *)
(* 32-byte sequences, a signature is a 64-byte sequence; Option<T> is a    *)
(* sequence of length 0 (None) or 1 (Some).                                *)
(***************************************************************************)
EXTENDS Integers, Sequences, FiniteSets, TLC

(* ------------------------------ bounds -------------------------------- *)
\* seeds handed to the derivation functions are 0..MaxSeed
MaxSeed == 1
\* entropy values the sr25519 signer may draw for one signature: 1..MaxWitness
MaxWitness == 2
\* wall-clock readings (seconds) are 0..MaxClock
MaxClock == 2
\* workers of SpecWorkers are 1..NumWorkers
NumWorkers == 2

(* ------------------------- program constants -------------------------- *)
\* if b.len() > 256
HashThreshold == 256
\* Era::mortal(256, phase)
EraPeriod == 256
\* [0u8; 32], for i in 0..32
SeedLen == 32
\* fn minimum_balance
MinimumBalance == 1337
\* fn minimum_period
MinimumPeriod == 99

(* ------------------------------ helpers ------------------------------- *)
None == <<>>
Some(x) == <<x>>

Fill(n, b) == [i \in 1..n |-> b]

Pow2(k) == 2 ^ k

\* n as k little-endian bytes
LEBytes(n, k) == [i \in 1..k |-> (n \div (256 ^ (i - 1))) % 256]

RECURSIVE FromLE(_)
FromLE(bs) == IF bs = <<>> THEN 0 ELSE Head(bs) + 256 * FromLE(Tail(bs))

Drop(bs, n) == SubSeq(bs, n + 1, Len(bs))
Take(bs, n) == SubSeq(bs, 1, n)

\* a decoder's answers: failure, or a value and the unread input
DecFail == [ok |-> FALSE]
DecOk(v, rest) == [ok |-> TRUE, val |-> v, rest |-> rest]

(* --------------------- SCALE codec (parity_codec) --------------------- *)
\* Compact<u32/u64/u128>::encode for n < 2^30 (one-, two- and four-byte modes)
CompactEncode(n) ==
    IF n < 64 THEN <<n * 4>>
    ELSE IF n < 16384 THEN LEBytes(n * 4 + 1, 2)
    ELSE <<(n % 64) * 4 + 2>> \o LEBytes(n \div 64, 3)

CompactDecode(bs) ==
    IF Len(bs) = 0 THEN DecFail
    ELSE LET mode == bs[1] % 4 IN
         IF mode = 0 THEN DecOk(bs[1] \div 4, Drop(bs, 1))
         ELSE IF mode = 1 THEN
              IF Len(bs) < 2 THEN DecFail
              ELSE DecOk(FromLE(Take(bs, 2)) \div 4, Drop(bs, 2))
         ELSE IF mode = 2 THEN
              IF Len(bs) < 4 THEN DecFail
              ELSE DecOk((bs[1] \div 4) + 64 * FromLE(SubSeq(bs, 2, 4)), Drop(bs, 4))
         ELSE DecFail

\* a fixed-width field of n bytes
FixedDecode(bs, n) ==
    IF Len(bs) < n THEN DecFail ELSE DecOk(Take(bs, n), Drop(bs, n))

(* ------------------ hashing and sr25519 (abstracted) ------------------ *)
\* sr_io::blake2_256: a 32-byte digest of the whole input.  The compression
\* function is abstracted to a polynomial mix over a balanced split of the
\* input; what is kept is that the result has 32 bytes and depends on every
\* input byte, on its position and on the length.
RECURSIVE Mix(_, _, _)
Mix(bs, lo, hi) ==
    IF lo > hi THEN 7
    ELSE IF lo = hi THEN (bs[lo] * 251 + lo) % 65521
    ELSE LET mid == (lo + hi) \div 2
         IN  (Mix(bs, lo, mid) * 31 + Mix(bs, mid + 1, hi) + 1) % 65521

blake2_256(bs) ==
    LET d == (Mix(bs, 1, Len(bs)) * 31 + Len(bs)) % 65521
    IN  [i \in 1..32 |-> ((d \div 256) * i + (d % 256) + i) % 256]

\* sr25519::Pair::from_seed: the pair is determined by its 32 seed bytes
PairFromSeed(seed) == [seed |-> seed]

\* Pair::public: a fixed injective function of the secret
Public(pair) == [i \in 1..32 |-> (pair.seed[i] * 5 + 3) % 256]

\* sr25519 Pair::sign.  A Schnorr signature is (R, s): R commits to a fresh
\* witness scalar that the signer draws from its random generator for every
\* signature, s binds public key, R and message.  w is the drawn witness.
KeySign(pair, msg, w) ==
    LET R == Fill(32, w)
    IN  R \o blake2_256(Public(pair) \o R \o msg)

\* sr25519 verification of sig over msg against the public key pub
SigVerify(sig, msg, pub) ==
    /\ Len(sig) = 64
    /\ SubSeq(sig, 33, 64) = blake2_256(pub \o SubSeq(sig, 1, 32) \o msg)

\* Keyring::Alice.pair(): the well-known development pair
AlicePair == PairFromSeed(Fill(32, 65))

(* ------------------------ sr_primitives Era --------------------------- *)
Immortal == [kind |-> "Immortal"]
Mortal(period, phase) == [kind |-> "Mortal", period |-> period, phase |-> phase]

Max(a, b) == IF a >= b THEN a ELSE b
Min(a, b) == IF a <= b THEN a ELSE b

RECURSIVE NextPowerOfTwo(_)
NextPowerOfTwo(n) == IF n <= 1 THEN 1 ELSE 2 * NextPowerOfTwo((n + 1) \div 2)

RECURSIVE TrailingZeros(_)
TrailingZeros(n) == IF n % 2 = 1 THEN 0 ELSE 1 + TrailingZeros(n \div 2)

\* Era::mortal(period, current)
EraMortal(period, current) ==
    LET p == Min(Max(NextPowerOfTwo(period), 4), 65536)
        phase == current % p
        q == Max(p \div 4096, 1)
    IN  Mortal(p, (phase \div q) * q)

\* Encode for Era: one zero byte, or a little-endian u16
EraEncode(era) ==
    IF era.kind = "Immortal" THEN <<0>>
    ELSE LET q == Max(era.period \div 4096, 1)
             low == Min(Max(TrailingZeros(era.period) - 1, 1), 15)
         IN  LEBytes((low + (era.phase \div q) * 16) % 65536, 2)

\* Decode for Era
EraDecode(bs) ==
    IF Len(bs) = 0 THEN DecFail
    ELSE IF bs[1] = 0 THEN DecOk(Immortal, Drop(bs, 1))
    ELSE IF Len(bs) < 2 THEN DecFail
    ELSE LET encoded == FromLE(Take(bs, 2))
             period == 2 * Pow2(encoded % 16)
             q == Max(period \div 4096, 1)
             phase == (encoded \div 16) * q
         IN  IF period >= 4 /\ phase < period
             THEN DecOk(Mortal(period, phase), Drop(bs, 2))
             ELSE DecFail

(* ------------------- addresses, calls, extrinsics --------------------- *)
\* indices::address::Address::Id(account)
AddressId(a) == [kind |-> "Id", id |-> a]

\* Encode for Address: Id is 0xff followed by the 32 account bytes
AddressEncode(a) == <<255>> \o a.id

\* Decode for Address (the Id form; the index forms are never produced here)
AddressDecode(bs) ==
    IF Len(bs) = 0 \/ bs[1] # 255 THEN DecFail
    ELSE LET r == FixedDecode(Drop(bs, 1), 32)
         IN  IF r.ok THEN DecOk(AddressId(r.val), r.rest) ELSE DecFail

\* Call::Balances(BalancesCall::transfer(dest, value))
BalancesTransfer(dest, value) == [kind |-> "transfer", dest |-> dest, value |-> value]
\* Call::Timestamp(timestamp::Call::set(now))
TimestampSet(now) == [kind |-> "set", now |-> now]
\* a call carrying a byte vector (Call::System(remark(data)))
SystemRemark(data) == [kind |-> "remark", data |-> data]

\* Encode for Call: module index, call index, arguments
CallEncode(c) ==
    CASE c.kind = "transfer" -> <<4, 0>> \o AddressEncode(c.dest) \o CompactEncode(c.value)
      [] c.kind = "set"      -> <<2, 0>> \o CompactEncode(c.now)
      [] c.kind = "remark"   -> <<0, 1>> \o CompactEncode(Len(c.data)) \o c.data

\* Decode for Call
CallDecode(bs) ==
    IF Len(bs) < 2 THEN DecFail
    ELSE LET args == Drop(bs, 2) IN
         IF bs[1] = 4 /\ bs[2] = 0 THEN
            LET d == AddressDecode(args) IN
            IF ~d.ok THEN DecFail
            ELSE LET v == CompactDecode(d.rest) IN
                 IF v.ok THEN DecOk(BalancesTransfer(d.val, v.val), v.rest) ELSE DecFail
         ELSE IF bs[1] = 2 /\ bs[2] = 0 THEN
            LET n == CompactDecode(args) IN
            IF n.ok THEN DecOk(TimestampSet(n.val), n.rest) ELSE DecFail
         ELSE IF bs[1] = 0 /\ bs[2] = 1 THEN
            LET n == CompactDecode(args) IN
            IF ~n.ok THEN DecFail
            ELSE LET r == FixedDecode(n.rest, n.val) IN
                 IF r.ok THEN DecOk(SystemRemark(r.val), r.rest) ELSE DecFail
         ELSE DecFail

\* CheckedExtrinsic { signed, function }
CheckedExtrinsic(signed, function) == [signed |-> signed, function |-> function]
\* UncheckedExtrinsic { signature, function }
UncheckedExtrinsic(signature, function) == [signature |-> signature, function |-> function]
\* the (address, signature, index, era) tuple of a signed extrinsic
SignatureTuple(address, sig, index, era) ==
    [address |-> address, sig |-> sig, index |-> index, era |-> era]

\* Encode for UncheckedExtrinsic: compact length prefix, version byte with
\* the top bit set when signed, the signature tuple, the call
ExtrinsicEncode(s) ==
    LET body == (IF s.signature = None
                 THEN <<1>>
                 ELSE LET t == s.signature[1]
                      IN  <<129>> \o AddressEncode(t.address) \o t.sig
                            \o CompactEncode(t.index) \o EraEncode(t.era))
                \o CallEncode(s.function)
    IN  CompactEncode(Len(body)) \o body

\* Decode for an extrinsic type of transaction version `version`: Some(xt) or None
ExtrinsicDecode(bs, version) ==
    LET len == CompactDecode(bs) IN
    IF ~len.ok \/ Len(len.rest) = 0 THEN None
    ELSE LET v == len.rest[1]
             body == Drop(len.rest, 1)
         IN
         IF v % 128 # version THEN None
         ELSE IF v < 128 THEN
              LET c == CallDecode(body) IN
              IF c.ok THEN Some(UncheckedExtrinsic(None, c.val)) ELSE None
         ELSE LET a == AddressDecode(body) IN
              IF ~a.ok THEN None
              ELSE LET g == FixedDecode(a.rest, 64) IN
              IF ~g.ok THEN None
              ELSE LET i == CompactDecode(g.rest) IN
              IF ~i.ok THEN None
              ELSE LET e == EraDecode(i.rest) IN
              IF ~e.ok THEN None
              ELSE LET c == CallDecode(e.rest) IN
              IF c.ok
              THEN Some(UncheckedExtrinsic(
                        Some(SignatureTuple(a.val, g.val, i.val, e.val)), c.val))
              ELSE None

(* --------------------- factory_impl.rs: functions --------------------- *)
\* StdRng: SeedableRng::seed_from_u64 and one step of the generator, which
\* yields a byte and the next state (abstracted to a 16-bit congruential
\* generator: deterministic, and the stream depends on the seed)
RngSeedFromU64(seed) == (seed * 25173 + 13849) % 65536
RngNext(st) == (st * 25173 + 13849) % 65536
RngByte(st) == st \div 256

\* fn gen_seed_bytes(seed: u64) -> [u8; 32]
gen_seed_bytes(seed) ==
    LET rng[i \in 0..SeedLen] ==
            IF i = 0 THEN RngSeedFromU64(seed) ELSE RngNext(rng[i - 1])
    IN  [i \in 1..SeedLen |-> RngByte(rng[i])]

\* fn gen_random_account_secret(seed: u64) -> Self::Secret
gen_random_account_secret(seed) == PairFromSeed(gen_seed_bytes(seed))

\* variant: the account id is derived from another seed than the secret
gen_random_account_id_reseeded(seed) == Public(PairFromSeed(gen_seed_bytes(seed + 1)))

\* fn gen_random_account_id(seed: u64) -> Self::AccountId
gen_random_account_id(seed) == Public(PairFromSeed(gen_seed_bytes(seed)))

\* fn master_account_secret() -> Self::Secret
master_account_secret == AlicePair

\* fn master_account_id() -> Self::AccountId
master_account_id == Public(AlicePair)

\* fn minimum_balance() / fn minimum_period()
minimum_balance == MinimumBalance
minimum_period == MinimumPeriod

\* fn extract_timestamp(_block_hash): the wall clock's seconds; now is the reading
extract_timestamp(blockHash, now) == now

\* fn extract_index(_account_id, _block_hash) / fn extract_phase(_block_hash)
extract_index(account, blockHash) == 0
extract_phase(blockHash) == 0

\* the transaction version of the extrinsic type of RA::Block, the type the
\* last line of sign decodes into.  sign is generic in the adapter RA;
\* RuntimeAdapterImpl passes itself ("node").
ExtrinsicVersionOf(ra) == IF ra = "node" THEN 1 ELSE 2

\* variant: the payload is encoded without the prior block hash
SignPayloadNoHash(index, function, era, prior_block_hash) ==
    CompactEncode(index) \o CallEncode(function) \o EraEncode(era)

\* sign, line 158 and 159: the encoded payload (index, function, era, prior_block_hash)
SignPayload(index, function, era, prior_block_hash) ==
    CompactEncode(index) \o CallEncode(function) \o EraEncode(era) \o prior_block_hash

\* variant: the length test is b.len() >= 256
SigningInputGe(b) == IF Len(b) >= HashThreshold THEN blake2_256(b) ELSE b

\* sign, lines 160-164: the bytes handed to key.sign for the encoded payload b
SigningInput(b) == IF Len(b) > HashThreshold THEN blake2_256(b) ELSE b

\* variant: a mortal era of another period
SignEraShort(phase) == EraMortal(64, phase)

\* sign, line 157
SignEra(phase) == EraMortal(EraPeriod, phase)

\* sign, lines 155-175: the list of inputs of key.sign, in call order
SignKeyCalls(xt, prior_block_hash, phase) ==
    IF xt.signed # None
    THEN LET index == xt.signed[1][2]
         IN  <<SigningInput(SignPayload(index, xt.function, SignEra(phase), prior_block_hash))>>
    ELSE <<>>

\* variant: the signature tuple is dropped
SignAssembleUnsigned(xt, key, prior_block_hash, phase, w) ==
    UncheckedExtrinsic(None, xt.function)

\* sign, lines 155-175: the assembled UncheckedExtrinsic s; w is the witness
\* the signer draws
SignAssemble(xt, key, prior_block_hash, phase, w) ==
    IF xt.signed # None
    THEN LET signed == xt.signed[1][1]
             index == xt.signed[1][2]
             era == SignEra(phase)
             b == SignPayload(index, xt.function, era, prior_block_hash)
             signature == KeySign(key, SigningInput(b), w)
         IN  UncheckedExtrinsic(
                 Some(SignatureTuple(AddressId(signed), signature, index, era)),
                 xt.function)
    ELSE UncheckedExtrinsic(None, xt.function)

\* the two ways a call ends: a returned value, or the panic of expect
Returned(v) == [kind |-> "ok", value |-> v]
Panicked(msg) == [kind |-> "panic", msg |-> msg]
NoOutcome == [kind |-> "none"]

\* sign, line 177
SignEncode(s) == ExtrinsicEncode(s)

\* variant: the slice decoded misses the last byte of e
SignDecodeShort(e, ra) ==
    LET d == ExtrinsicDecode(Take(e, Len(e) - 1), ExtrinsicVersionOf(ra))
    IN  IF d = None
        THEN Panicked("Failed to decode signed unchecked extrinsic")
        ELSE Returned(d[1])

\* variant: a failed decode is turned into a default value (unwrap_or_default)
SignDecodeDefault(e, ra) ==
    LET d == ExtrinsicDecode(e, ExtrinsicVersionOf(ra))
    IN  IF d = None
        THEN Returned(UncheckedExtrinsic(None, TimestampSet(0)))
        ELSE Returned(d[1])

\* sign, line 178: Decode::decode(&mut &e[..]).expect(..)
SignDecode(e, ra) ==
    LET d == ExtrinsicDecode(e, ExtrinsicVersionOf(ra))
    IN  IF d = None
        THEN Panicked("Failed to decode signed unchecked extrinsic")
        ELSE Returned(d[1])

\* fn sign<F, RA>(xt, key, prior_block_hash, phase)
sign(xt, key, prior_block_hash, phase, ra, w) ==
    SignDecode(SignEncode(SignAssemble(xt, key, prior_block_hash, phase, w)), ra)

\* variant: sender and destination are exchanged
TransferCheckedSwapped(sender, destination, amount, index) ==
    CheckedExtrinsic(Some(<<destination, index>>),
                     BalancesTransfer(AddressId(sender), amount))

\* the CheckedExtrinsic transfer_extrinsic builds, lines 60-70
TransferChecked(sender, destination, amount, index) ==
    CheckedExtrinsic(Some(<<sender, index>>),
                     BalancesTransfer(AddressId(destination), amount))

\* fn transfer_extrinsic(sender, key, destination, amount, index, phase, prior_block_hash)
transfer_extrinsic(sender, key, destination, amount, index, phase, prior_block_hash, w) ==
    sign(TransferChecked(sender, destination, amount, index),
         key, prior_block_hash, phase, "node", w)

\* variant: the inherent is given a signed origin
TimestampCheckedSigned(ts) ==
    CheckedExtrinsic(Some(<<Public(AlicePair), 0>>), TimestampSet(ts))

\* the CheckedExtrinsic timestamp_inherent builds, lines 79-82
TimestampChecked(ts) == CheckedExtrinsic(None, TimestampSet(ts))

\* fn timestamp_inherent(ts, key, phase, prior_block_hash)
timestamp_inherent(ts, key, phase, prior_block_hash, w) ==
    sign(TimestampChecked(ts), key, prior_block_hash, phase, "node", w)

(* ------------------------------- state -------------------------------- *)
VARIABLES
    pc,        \* the caller: "idle", or "done" when a call has ended
    op,        \* the call in progress: its name and arguments
    outcome,   \* how the call ended: Returned(v) or Panicked(msg)
    asm,       \* Some(s), the extrinsic sign assembled before line 177, or None
    keyCalls,  \* the inputs of the key.sign invocations of the call, in order
    last,      \* the call before this one and its outcome, if it was a derivation
    wpc,       \* per worker: "idle", "assembled", "encoded", "done"
    wop,       \* per worker: the call in progress
    ws,        \* per worker: the local s of sign
    we,        \* per stack slot: the local e of sign
    wout       \* per worker: the outcome of the call

callerVars == <<pc, op, outcome, asm, keyCalls, last>>
workerVars == <<wpc, wop, ws, we, wout>>
vars == <<pc, op, outcome, asm, keyCalls, last, wpc, wop, ws, we, wout>>

(* --------------------------- input domains ---------------------------- *)
Seeds == 0..MaxSeed
Witnesses == 1..MaxWitness
Clock == 0..MaxClock
Workers == 1..NumWorkers

\* senders and keys: the master account and the account of seed 0, so that a
\* key is paired both with its own account and with another one
Accounts == {master_account_id, gen_random_account_id(0)}
Secrets == {master_account_secret, gen_random_account_secret(0)}
Destinations == {gen_random_account_id(sd) : sd \in Seeds}
Amounts == {1000, 16384}
Indices == {0, 64}
Phases == {0, 5, 261}
Moments == {0, 99, 1000}
Hashes == {Fill(32, 0), Fill(32, 17)}
Adapters == {"node", "other"}
\* argument lengths that put the payload of a remark at 39, 256 and 257
\* bytes for index 0
RemarkLens == {0, 217, 218}
Functions ==
    {BalancesTransfer(AddressId(gen_random_account_id(0)), 1000), TimestampSet(99)}
        \cup {SystemRemark(Fill(n, 0)) : n \in RemarkLens}
Origins == {None} \cup {Some(<<a, i>>) : a \in {master_account_id}, i \in Indices}
CheckedInputs == {CheckedExtrinsic(o, f) : o \in Origins, f \in Functions}

NoCall == [name |-> "none"]
Derivations == {"gen_random_account_id", "gen_random_account_secret",
                "master_account_id", "master_account_secret"}

(* --------------------------- Spec: one caller ------------------------- *)
InitCaller ==
    /\ pc = "idle"
    /\ op = NoCall
    /\ outcome = NoOutcome
    /\ asm = None
    /\ keyCalls = <<>>
    /\ last = NoCall

InitWorkers ==
    /\ wpc = [w \in Workers |-> "idle"]
    /\ wop = [w \in Workers |-> NoCall]
    /\ ws = [w \in Workers |-> None]
    /\ we = [w \in Workers |-> <<>>]
    /\ wout = [w \in Workers |-> NoOutcome]

Init == InitCaller /\ InitWorkers

\* a call of a function that does not go through sign
Plain(call, value) ==
    /\ pc = "idle"
    /\ pc' = "done"
    /\ op' = call
    /\ outcome' = Returned(value)
    /\ asm' = None
    /\ keyCalls' = <<>>
    /\ UNCHANGED <<last, workerVars>>

\* a call that ends in sign(xt, key, prior_block_hash, phase) for adapter ra
Signing(call, xt, key, prior_block_hash, phase, ra, w) ==
    /\ pc = "idle"
    /\ pc' = "done"
    /\ op' = call
    /\ outcome' = sign(xt, key, prior_block_hash, phase, ra, w)
    /\ asm' = Some(SignAssemble(xt, key, prior_block_hash, phase, w))
    /\ keyCalls' = SignKeyCalls(xt, prior_block_hash, phase)
    /\ UNCHANGED <<last, workerVars>>

CallTransferExtrinsic ==
    \E sender \in Accounts, key \in Secrets, destination \in Destinations,
       amount \in Amounts, index \in Indices, phase \in Phases,
       prior_block_hash \in Hashes, w \in Witnesses :
        /\ pc = "idle"
        /\ pc' = "done"
        /\ op' = [name |-> "transfer_extrinsic", sender |-> sender, key |-> key,
                  destination |-> destination, amount |-> amount, index |-> index,
                  phase |-> phase, prior_block_hash |-> prior_block_hash]
        /\ outcome' = transfer_extrinsic(sender, key, destination, amount, index,
                                         phase, prior_block_hash, w)
        /\ asm' = Some(SignAssemble(TransferChecked(sender, destination, amount, index),
                                    key, prior_block_hash, phase, w))
        /\ keyCalls' = SignKeyCalls(TransferChecked(sender, destination, amount, index),
                                    prior_block_hash, phase)
        /\ UNCHANGED <<last, workerVars>>

CallTimestampInherent ==
    \E ts \in Moments, key \in Secrets, phase \in Phases,
       prior_block_hash \in Hashes, w \in Witnesses :
        /\ pc = "idle"
        /\ pc' = "done"
        /\ op' = [name |-> "timestamp_inherent", ts |-> ts, key |-> key,
                  phase |-> phase, prior_block_hash |-> prior_block_hash]
        /\ outcome' = timestamp_inherent(ts, key, phase, prior_block_hash, w)
        /\ asm' = Some(SignAssemble(TimestampChecked(ts), key, prior_block_hash, phase, w))
        /\ keyCalls' = SignKeyCalls(TimestampChecked(ts), prior_block_hash, phase)
        /\ UNCHANGED <<last, workerVars>>

\* sign called with any CheckedExtrinsic, for any adapter RA
CallSign ==
    \E xt \in CheckedInputs, key \in Secrets, phase \in Phases,
       prior_block_hash \in Hashes, ra \in Adapters, w \in Witnesses :
        Signing([name |-> "sign", xt |-> xt, key |-> key, phase |-> phase,
                 prior_block_hash |-> prior_block_hash, ra |-> ra],
                xt, key, prior_block_hash, phase, ra, w)

CallMinimumBalance == Plain([name |-> "minimum_balance"], minimum_balance)
CallMinimumPeriod == Plain([name |-> "minimum_period"], minimum_period)
CallMasterAccountId == Plain([name |-> "master_account_id"], master_account_id)
CallMasterAccountSecret == Plain([name |-> "master_account_secret"], master_account_secret)

CallGenRandomAccountId ==
    \E seed \in Seeds :
        Plain([name |-> "gen_random_account_id", seed |-> seed],
              gen_random_account_id(seed))

CallGenRandomAccountSecret ==
    \E seed \in Seeds :
        Plain([name |-> "gen_random_account_secret", seed |-> seed],
              gen_random_account_secret(seed))

CallExtractTimestamp ==
    \E h \in Hashes, now \in Clock :
        Plain([name |-> "extract_timestamp", block_hash |-> h],
              extract_timestamp(h, now))

CallExtractIndex ==
    \E a \in Accounts, h \in Hashes :
        Plain([name |-> "extract_index", account_id |-> a, block_hash |-> h],
              extract_index(a, h))

CallExtractPhase ==
    \E h \in Hashes :
        Plain([name |-> "extract_phase", block_hash |-> h], extract_phase(h))

\* the caller takes the result (or the panic has unwound) and may call again
Return ==
    /\ pc = "done"
    /\ pc' = "idle"
    /\ last' = IF op.name \in Derivations
               THEN [name |-> op.name, call |-> op, value |-> outcome.value]
               ELSE NoCall
    /\ op' = NoCall
    /\ outcome' = NoOutcome
    /\ asm' = None
    /\ keyCalls' = <<>>
    /\ UNCHANGED workerVars

Next ==
    \/ CallTransferExtrinsic
    \/ CallTimestampInherent
    \/ CallSign
    \/ CallMinimumBalance
    \/ CallMinimumPeriod
    \/ CallMasterAccountId
    \/ CallMasterAccountSecret
    \/ CallGenRandomAccountId
    \/ CallGenRandomAccountSecret
    \/ CallExtractTimestamp
    \/ CallExtractIndex
    \/ CallExtractPhase
    \/ Return

Spec == Init /\ [][Next]_vars

(* ---------------------- SpecWorkers: several workers ------------------ *)
\* Each worker runs transfer_extrinsic or timestamp_inherent one statement
\* of sign at a time (assemble, line 177, line 178), or a derivation in one
\* step; the steps of different workers interleave freely.

\* variant: e is one buffer shared by all calls
SlotShared(w) == 1

\* where the local e of the call of worker w lives: its own stack frame
Slot(w) == w

WorkerTransfers ==
    {[name |-> "transfer_extrinsic", sender |-> master_account_id,
      key |-> master_account_secret, destination |-> gen_random_account_id(0),
      amount |-> 1000, index |-> i, phase |-> 0, prior_block_hash |-> Fill(32, 0)]
        : i \in Indices}

WorkerInherents ==
    {[name |-> "timestamp_inherent", ts |-> 99, key |-> master_account_secret,
      phase |-> 0, prior_block_hash |-> Fill(32, 0)]}

\* the CheckedExtrinsic the call c hands to sign
CheckedOf(c) ==
    IF c.name = "transfer_extrinsic"
    THEN TransferChecked(c.sender, c.destination, c.amount, c.index)
    ELSE TimestampChecked(c.ts)

\* the outcomes the call c has when it runs alone, one per witness the signer may draw
Alone(c) ==
    CASE c.name = "transfer_extrinsic" ->
            {transfer_extrinsic(c.sender, c.key, c.destination, c.amount, c.index,
                                c.phase, c.prior_block_hash, w) : w \in Witnesses}
      [] c.name = "timestamp_inherent" ->
            {timestamp_inherent(c.ts, c.key, c.phase, c.prior_block_hash, w)
                : w \in Witnesses}
      [] c.name = "gen_random_account_id" -> {Returned(gen_random_account_id(c.seed))}
      [] c.name = "gen_random_account_secret" ->
            {Returned(gen_random_account_secret(c.seed))}

\* sign, lines 155-175, in the call c of worker w
WBegin(w) ==
    \E c \in WorkerTransfers \cup WorkerInherents, r \in Witnesses :
        /\ wpc[w] = "idle"
        /\ wpc' = [wpc EXCEPT ![w] = "assembled"]
        /\ wop' = [wop EXCEPT ![w] = c]
        /\ ws' = [ws EXCEPT ![w] =
                    Some(SignAssemble(CheckedOf(c), c.key, c.prior_block_hash, c.phase, r))]
        /\ UNCHANGED <<we, wout, callerVars>>

\* sign, line 177: let e = Encode::encode(&s)
WEncode(w) ==
    /\ wpc[w] = "assembled"
    /\ wpc' = [wpc EXCEPT ![w] = "encoded"]
    /\ we' = [we EXCEPT ![Slot(w)] = SignEncode(ws[w][1])]
    /\ UNCHANGED <<wop, ws, wout, callerVars>>

\* sign, line 178: Decode::decode(&mut &e[..]).expect(..)
WDecode(w) ==
    /\ wpc[w] = "encoded"
    /\ wpc' = [wpc EXCEPT ![w] = "done"]
    /\ wout' = [wout EXCEPT ![w] = SignDecode(we[Slot(w)], "node")]
    /\ UNCHANGED <<wop, ws, we, callerVars>>

\* gen_random_account_id / gen_random_account_secret
WDerive(w) ==
    \E seed \in Seeds :
        /\ wpc[w] = "idle"
        /\ wpc' = [wpc EXCEPT ![w] = "done"]
        /\ \/ /\ wop' = [wop EXCEPT ![w] = [name |-> "gen_random_account_id", seed |-> seed]]
              /\ wout' = [wout EXCEPT ![w] = Returned(gen_random_account_id(seed))]
           \/ /\ wop' = [wop EXCEPT ![w] = [name |-> "gen_random_account_secret", seed |-> seed]]
              /\ wout' = [wout EXCEPT ![w] = Returned(gen_random_account_secret(seed))]
        /\ UNCHANGED <<ws, we, callerVars>>

\* the call returns; its locals are gone
WReturn(w) ==
    /\ wpc[w] = "done"
    /\ wpc' = [wpc EXCEPT ![w] = "idle"]
    /\ wop' = [wop EXCEPT ![w] = NoCall]
    /\ ws' = [ws EXCEPT ![w] = None]
    /\ we' = [we EXCEPT ![Slot(w)] = <<>>]
    /\ wout' = [wout EXCEPT ![w] = NoOutcome]
    /\ UNCHANGED callerVars

NextWorkers ==
    \E w \in Workers :
        \/ WBegin(w)
        \/ WEncode(w)
        \/ WDecode(w)
        \/ WDerive(w)
        \/ WReturn(w)

SpecWorkers == Init /\ [][NextWorkers]_vars

(* ============================ properties ============================== *)
\* the call in progress has ended and went through sign
SignedCallDone == pc = "done" /\ op.name \in {"transfer_extrinsic", "timestamp_inherent", "sign"}

\* the CheckedExtrinsic, as the call's arguments determine it
XtOfCall(c) ==
    CASE c.name = "transfer_extrinsic" ->
            CheckedExtrinsic(Some(<<c.sender, c.index>>),
                             BalancesTransfer(AddressId(c.destination), c.amount))
      [] c.name = "timestamp_inherent" -> CheckedExtrinsic(None, TimestampSet(c.ts))
      [] c.name = "sign" -> c.xt

AdapterOfCall(c) == IF c.name = "sign" THEN c.ra ELSE "node"

\* the canonical encoding of (index, call, era, prior_block_hash)
CanonicalPayload(index, call, era, hash) ==
    CompactEncode(index) \o CallEncode(call) \o EraEncode(era) \o hash

\* the message a verifier derives from the encoded payload by its length
VerifiedMessage(b) == IF Len(b) > 256 THEN blake2_256(b) ELSE b

\* the message of the transfer call c
TransferMessage(c) ==
    VerifiedMessage(CanonicalPayload(c.index,
                                     BalancesTransfer(AddressId(c.destination), c.amount),
                                     Mortal(256, c.phase % 256), c.prior_block_hash))

\* C1 as stated: the signature in the result of every transfer_extrinsic call
\* verifies against the public key of the declared origin, the sender.
C1_VerifiesAgainstSender ==
    (pc = "done" /\ op.name = "transfer_extrinsic") =>
        /\ outcome.kind = "ok"
        /\ outcome.value.signature # None
        /\ SigVerify(outcome.value.signature[1].sig, TransferMessage(op), op.sender)

\* C1 amended: the signature in the result of every transfer_extrinsic call
\* verifies against the public key of the supplied key over the canonical
\* encoding of (index, transfer call, Era::mortal(256, phase), prior_block_hash),
\* hashed when longer than 256 bytes; that is the sender's key when the
\* supplied key is the sender's secret.
C1_VerifiesAgainstKey ==
    (pc = "done" /\ op.name = "transfer_extrinsic") =>
        /\ outcome.kind = "ok"
        /\ outcome.value.signature # None
        /\ SigVerify(outcome.value.signature[1].sig, TransferMessage(op), Public(op.key))
        /\ (Public(op.key) = op.sender =>
                SigVerify(outcome.value.signature[1].sig, TransferMessage(op), op.sender))

C1_Witness ==
    /\ pc = "done" /\ op.name = "transfer_extrinsic"
    /\ Public(op.key) = op.sender
    /\ outcome.kind = "ok"
    /\ SigVerify(outcome.value.signature[1].sig, TransferMessage(op), op.sender)

\* the encoded payload of a sign call with a signed origin
SignCallPayload(c) ==
    CanonicalPayload(c.xt.signed[1][2], c.xt.function,
                     Mortal(256, c.phase % 256), c.prior_block_hash)

\* C2: in sign with a signed origin, key.sign receives the blake2_256 hash of
\* the encoded payload if and only if the payload is longer than 256 bytes,
\* and the raw payload for every length up to and including 256.
C2_HashIffLonger ==
    (pc = "done" /\ op.name = "sign" /\ op.xt.signed # None) =>
        LET b == SignCallPayload(op) IN
        /\ Len(keyCalls) = 1
        /\ (Len(b) > 256 => keyCalls[1] = blake2_256(b))
        /\ (Len(b) <= 256 => keyCalls[1] = b)
        /\ (keyCalls[1] = blake2_256(b) <=> Len(b) > 256)

C2_Witness ==
    /\ pc = "done" /\ op.name = "sign" /\ op.xt.signed # None
    /\ Len(SignCallPayload(op)) = 257
    /\ keyCalls = <<blake2_256(SignCallPayload(op))>>

\* C3: timestamp_inherent returns the unsigned extrinsic carrying
\* Timestamp set(ts), whatever key, phase and prior block hash it is given,
\* and never signs.
C3_InherentUnsigned ==
    (pc = "done" /\ op.name = "timestamp_inherent") =>
        /\ outcome = Returned(UncheckedExtrinsic(None, TimestampSet(op.ts)))
        /\ keyCalls = <<>>

C3_Witness ==
    /\ pc = "done" /\ op.name = "timestamp_inherent"
    /\ op.key = gen_random_account_secret(0) /\ op.phase = 261
    /\ op.prior_block_hash = Fill(32, 17)
    /\ outcome.kind = "ok" /\ outcome.value.signature = None

\* C4: the object sign returns for the node's adapter equals the object it
\* assembled, and encoding then decoding the returned object gives it back.
C4_RoundTrip ==
    (SignedCallDone /\ AdapterOfCall(op) = "node") =>
        /\ outcome.kind = "ok"
        /\ asm = Some(outcome.value)
        /\ ExtrinsicDecode(ExtrinsicEncode(outcome.value), 1) = Some(outcome.value)

C4_Witness ==
    /\ pc = "done" /\ op.name = "transfer_extrinsic"
    /\ op.amount = 16384 /\ op.index = 64 /\ op.phase = 261
    /\ asm = Some(outcome.value)

\* C5: gen_random_account_id(s) is the public key of gen_random_account_secret(s),
\* master_account_id is the public key of master_account_secret, and a
\* derivation repeated with the same seed returns the same value.
C5_DerivationConsistent ==
    pc = "done" =>
        /\ op.name = "gen_random_account_id" =>
              outcome.value = Public(gen_random_account_secret(op.seed))
        /\ op.name = "gen_random_account_secret" =>
              Public(outcome.value) = gen_random_account_id(op.seed)
        /\ op.name = "master_account_id" => outcome.value = Public(master_account_secret)
        /\ op.name = "master_account_secret" => Public(outcome.value) = master_account_id
        /\ (op.name \in Derivations /\ last.name = op.name /\ last.call = op) =>
              last.value = outcome.value
        /\ (op.name = "gen_random_account_secret" /\ last.name = "gen_random_account_id"
                /\ last.call.seed = op.seed) =>
              last.value = Public(outcome.value)
        /\ (op.name = "master_account_secret" /\ last.name = "master_account_id") =>
              last.value = Public(outcome.value)

C5_Witness ==
    /\ pc = "done" /\ op.name = "gen_random_account_secret" /\ op.seed = 1
    /\ last.name = "gen_random_account_id" /\ last.call.seed = 1
    /\ last.value = Public(outcome.value)
    /\ last.value # gen_random_account_id(0)

\* C6: the era of a signed extrinsic is the mortal era of period 256
\* determined by the phase alone, and it is the era encoded in the payload
\* that was signed.
C6_EraStable ==
    (SignedCallDone /\ XtOfCall(op).signed # None /\ outcome.kind = "ok") =>
        LET era == outcome.value.signature[1].era
            xt == XtOfCall(op)
        IN  /\ era.kind = "Mortal"
            /\ era.period = 256
            /\ era = Mortal(256, op.phase % 256)
            /\ keyCalls = <<VerifiedMessage(CanonicalPayload(
                               xt.signed[1][2], xt.function, era, op.prior_block_hash))>>

C6_Witness ==
    /\ pc = "done" /\ op.name = "transfer_extrinsic" /\ op.phase = 261
    /\ outcome.kind = "ok"
    /\ outcome.value.signature[1].era = Mortal(256, 5)

\* C7: a call of sign ends either with a returned object or with the panic;
\* it panics exactly when decoding the encoded object gives nothing, the
\* panic carries no extrinsic, and key.sign is not invoked again.
C7_PanicOnFailedSelfCheck ==
    SignedCallDone =>
        LET d == ExtrinsicDecode(ExtrinsicEncode(asm[1]), ExtrinsicVersionOf(AdapterOfCall(op)))
        IN  /\ outcome.kind \in {"ok", "panic"}
            /\ (d = None <=> outcome.kind = "panic")
            /\ (d = None => outcome = Panicked("Failed to decode signed unchecked extrinsic"))
            /\ (d # None => outcome = Returned(d[1]))
            /\ Len(keyCalls) <= 1

C7_Witness ==
    /\ pc = "done" /\ op.name = "sign"
    /\ outcome = Panicked("Failed to decode signed unchecked extrinsic")

C9_TransferFields ==
    (pc = "done" /\ op.name = "transfer_extrinsic") =>
        /\ outcome.kind = "ok"
        /\ outcome.value.signature # None
        /\ outcome.value.signature[1].address = AddressId(op.sender)
        /\ outcome.value.signature[1].index = op.index
        /\ outcome.value.function = BalancesTransfer(AddressId(op.destination), op.amount)

C9_Witness ==
    /\ pc = "done" /\ op.name = "transfer_extrinsic"
    /\ op.sender = master_account_id /\ op.key = master_account_secret
    /\ op.destination = gen_random_account_id(0)
    /\ op.amount = 1000 /\ op.index = 0 /\ op.phase = 0
    /\ outcome.value.signature[1].index = 0
    /\ outcome.value.function = BalancesTransfer(AddressId(gen_random_account_id(0)), 1000)

\* C10: the result of sign is signed exactly when the input has a signed
\* origin, key.sign is invoked once for a signed origin and never for an
\* unsigned one, and the call of the result is the call of the input.
C10_SignedIffOrigin ==
    SignedCallDone =>
        LET xt == XtOfCall(op) IN
        /\ Len(keyCalls) = (IF xt.signed # None THEN 1 ELSE 0)
        /\ outcome.kind = "ok" =>
              /\ (outcome.value.signature # None) <=> (xt.signed # None)
              /\ outcome.value.function = xt.function

C10_Witness ==
    /\ pc = "done" /\ op.name = "sign" /\ op.xt.signed = None
    /\ op.xt.function.kind = "remark"
    /\ outcome.kind = "ok" /\ outcome.value.signature = None /\ keyCalls = <<>>

====
